---- MODULE Spec2Model ----
(***************************************************************************)
(* Model of the two scripts of the repository:                             *)
(*   merge_lora.py  (the Fetcher): downloads a model snapshot into         *)
(*                  ./nexus-tools-merged with snapshot_download;           *)
(*   test_model.py  (the Smoke Tester): loads tokenizer and model from     *)
(*                  that directory, renders a chat prompt, generates at    *)
(*                  most 100 new tokens and prints the decoded response.   *)
(* The library calls are modelled by the contract of the arguments the     *)
(* scripts pass to them (resume_download, local_dir_use_symlinks,          *)
(* max_new_tokens, add_generation_prompt, skip_special_tokens).            *)
(***************************************************************************)
EXTENDS Integers, Sequences, FiniteSets, TLC

VARIABLES
    \* the local model directory ./nexus-tools-merged
    dir,
    \* Fetcher process
    fpc, fexit, fout, ferror, runs, calls, started, visited, fetched,
    haveAtStart, prev, firstSuccessDir,
    \* Smoke Tester process
    tpc, texit, tout, stepCount, failedStep, tokenizer, model, prompt,
    input_ids, printedInputTokens, seed, sampled, outputs, response,
    generatedCount

fvars == <<fpc, fexit, fout, ferror, runs, calls, started, visited, fetched,
           haveAtStart, prev, firstSuccessDir>>
tvars == <<tpc, texit, tout, stepCount, failedStep, tokenizer, model, prompt,
           input_ids, printedInputTokens, seed, sampled, outputs, response,
           generatedCount>>
vars == <<dir, fvars, tvars>>

----------------------------------------------------------------------------
(* Bounds of the model *)

\* number of Fetcher runs in one behaviour
MaxRuns == 3
\* number of chunks of the weights file of the remote snapshot
WeightsChunks == 2
\* number of sampling patterns the generation is run with
MaxPat == 2

----------------------------------------------------------------------------
(* Configuration constants of the scripts *)

MODEL_ID == "professorsynapse/nexus-tools_sft17"
OUTPUT_DIR == "./nexus-tools-merged"
MODEL_PATH == "./nexus-tools-merged"
local_dir_use_symlinks_on == TRUE
local_dir_use_symlinks == FALSE
resume_download_off == FALSE
resume_download == TRUE
max_new_tokens == 100
add_generation_prompt == TRUE
skip_special_tokens_off == FALSE
skip_special_tokens == TRUE
messages == << [role |-> "user", content |-> <<"Hello!", "What can you help me with?">>] >>

----------------------------------------------------------------------------
(* The remote snapshot and the local directory *)

Files == {"config.json", "tokenizer.json", "model.safetensors"}

Size(f) == IF f = "model.safetensors" THEN WeightsChunks ELSE 1

\* content of the remote files, chunk by chunk
Remote == [f \in Files |-> [i \in 1..Size(f) |-> <<f, i>>]]

\* an entry of the directory: the final file (data, kind) and the
\* ".incomplete" partial download next to it (part)
NoEntry == [data |-> <<>>, part |-> <<>>, kind |-> "none"]

EmptyDir == [f \in Files |-> NoEntry]

Prefixes(s) == {SubSeq(s, 1, n) : n \in 0..Len(s)}

\* the directories a sequence of complete or interrupted Fetcher runs leaves
DirStates ==
    {d \in [Files -> [data : UNION {{<<>>, Remote[f]} : f \in Files},
                      part : UNION {Prefixes(Remote[f]) : f \in Files},
                      kind : {"none", "regular"}]] :
        \A f \in Files :
            /\ d[f].data \in {<<>>, Remote[f]}
            /\ d[f].part \in Prefixes(Remote[f]) \ {Remote[f]}
            /\ d[f].data # <<>> => d[f].part = <<>>
            /\ d[f].kind = (IF d[f].data = <<>> THEN "none" ELSE "regular")}

----------------------------------------------------------------------------
(* The Fetcher: merge_lora.py *)

\* hf_hub_download skips a file whose final copy is already in local_dir
UpToDate_never(f) == FALSE
UpToDate(f) == dir[f].data = Remote[f]

\* where the download of file f continues from: the partial file left by an
\* earlier run when resuming, nothing otherwise
Base(f) ==
    IF f \in started THEN dir[f].part
    ELSE IF resume_download THEN dir[f].part
    ELSE <<>>

\* how a completed file is materialised in local_dir
EntryKind == IF local_dir_use_symlinks THEN "symlink" ELSE "regular"

\* lines 11-12: the two progress messages; a run starts
FetcherStart ==
    /\ fpc \in {"idle", "done", "failed"}
    /\ runs < MaxRuns
    /\ runs' = runs + 1
    /\ prev' = fpc
    /\ haveAtStart' = dir
    /\ fout' = <<"Downloading model: " \o MODEL_ID,
                 "This will download ~15GB on first run...">>
    /\ fpc' = "call"
    /\ fexit' = -1
    /\ ferror' = "none"
    /\ calls' = 0
    /\ started' = {}
    /\ visited' = {}
    /\ fetched' = {}
    /\ UNCHANGED <<dir, firstSuccessDir, tvars>>

\* line 15: snapshot_download is called
CallSnapshotDownload ==
    /\ fpc = "call"
    /\ calls' = calls + 1
    /\ fpc' = "download"
    /\ UNCHANGED <<dir, fexit, fout, ferror, runs, started, visited, fetched,
                   haveAtStart, prev, firstSuccessDir, tvars>>

\* inside snapshot_download: a file already complete is skipped
SkipFile(f) ==
    /\ fpc = "download"
    /\ f \notin visited
    /\ UpToDate(f)
    /\ visited' = visited \cup {f}
    /\ UNCHANGED <<dir, fpc, fexit, fout, ferror, runs, calls, started,
                   fetched, haveAtStart, prev, firstSuccessDir, tvars>>

\* inside snapshot_download: the next chunk of a file is fetched into its
\* partial file; the last chunk moves the partial file to its final place
DownloadChunk(f) ==
    /\ fpc = "download"
    /\ f \notin visited
    /\ ~UpToDate(f)
    /\ LET base == Base(f)
           n == Len(base) + 1
           newpart == Append(base, Remote[f][n])
       IN  /\ n <= Size(f)
           /\ fetched' = fetched \cup {<<f, n>>}
           /\ started' = started \cup {f}
           /\ IF n = Size(f)
              THEN /\ dir' = [dir EXCEPT ![f] = [data |-> newpart,
                                                 part |-> <<>>,
                                                 kind |-> EntryKind]]
                   /\ visited' = visited \cup {f}
              ELSE /\ dir' = [dir EXCEPT ![f].part = newpart]
                   /\ visited' = visited
    /\ UNCHANGED <<fpc, fexit, fout, ferror, runs, calls, haveAtStart, prev,
                   firstSuccessDir, tvars>>

\* the download raises (network, authentication, disk space): the script has
\* no try/except, the exception ends the process with exit status 1
DownloadFail_caught(reason) ==
    /\ fpc = "download"
    /\ reason = "auth" => started = {} /\ visited = {}
    /\ ferror' = reason
    /\ fpc' = "returned"
    /\ UNCHANGED <<dir, fexit, fout, runs, calls, started, visited, fetched,
                   haveAtStart, prev, firstSuccessDir, tvars>>
DownloadFail(reason) ==
    /\ fpc = "download"
    /\ reason = "auth" => started = {} /\ visited = {}
    /\ ferror' = reason
    /\ fpc' = "failed"
    /\ fexit' = 1
    /\ UNCHANGED <<dir, fout, runs, calls, started, visited, fetched,
                   haveAtStart, prev, firstSuccessDir, tvars>>

\* snapshot_download returns once every file of the snapshot is in place
DownloadReturn ==
    /\ fpc = "download"
    /\ visited = Files
    /\ fpc' = "returned"
    /\ UNCHANGED <<dir, fexit, fout, ferror, runs, calls, started, visited,
                   fetched, haveAtStart, prev, firstSuccessDir, tvars>>

\* line 22: the completion message; the script ends with exit status 0
PrintDone ==
    /\ fpc = "returned"
    /\ fout' = Append(fout, "Done! Model downloaded to: " \o OUTPUT_DIR)
    /\ fpc' = "done"
    /\ fexit' = 0
    /\ firstSuccessDir' = IF firstSuccessDir = <<>> THEN <<dir>>
                          ELSE firstSuccessDir
    /\ UNCHANGED <<dir, ferror, runs, calls, started, visited, fetched,
                   haveAtStart, prev, tvars>>

Reasons == {"network", "auth", "disk"}

InitTesterIdle ==
    /\ tpc = "start"
    /\ texit = -1
    /\ tout = <<>>
    /\ stepCount = [k \in 1..6 |-> 0]
    /\ failedStep = 0
    /\ tokenizer = [loaded |-> FALSE]
    /\ model = [loaded |-> FALSE]
    /\ prompt = <<>>
    /\ input_ids = <<>>
    /\ printedInputTokens = -1
    /\ seed = [eosAt |-> 0, pat |-> 0]
    /\ sampled = 0
    /\ outputs = <<>>
    /\ response = <<>>
    /\ generatedCount = -1

InitFetcherIdle ==
    /\ fpc = "idle"
    /\ fexit = -1
    /\ fout = <<>>
    /\ ferror = "none"
    /\ runs = 0
    /\ calls = 0
    /\ started = {}
    /\ visited = {}
    /\ fetched = {}
    /\ haveAtStart = EmptyDir
    /\ prev = "idle"
    /\ firstSuccessDir = <<>>

InitFetcher ==
    /\ dir = EmptyDir
    /\ InitFetcherIdle
    /\ InitTesterIdle

NextFetcher ==
    \/ FetcherStart
    \/ CallSnapshotDownload
    \/ \E f \in Files : SkipFile(f)
    \/ \E f \in Files : DownloadChunk(f)
    \/ \E reason \in Reasons : DownloadFail(reason)
    \/ DownloadReturn
    \/ PrintDone

SpecFetcher == InitFetcher /\ [][NextFetcher]_vars

----------------------------------------------------------------------------
(* The Smoke Tester: test_model.py *)

\* the pieces of text the tokenizer knows; a token id is an index of Vocab
Vocab == <<"<s>", "</s>", "<|user|>", "<|assistant|>", "user:", "assistant:",
           "Hello!", "What can you help me with?", "Sure">>

\* the special (control) tokens of the tokenizer
SpecialPieces == {"<s>", "</s>", "<|user|>", "<|assistant|>"}

IdOf(piece) == CHOOSE i \in 1..Len(Vocab) : Vocab[i] = piece

SpecialIds == {i \in 1..Len(Vocab) : Vocab[i] \in SpecialPieces}

eos_token_id == IdOf("</s>")

\* the chat templates a tokenizer directory can carry ("none": no template)
Templates == {"special", "plain", "none"}

\* one conversation turn in the chat format of the template
Turn(tmpl, m) ==
    IF tmpl = "special"
    THEN <<"<|" \o m.role \o "|>">> \o m.content \o <<"</s>">>
    ELSE <<m.role \o ":">> \o m.content

RECURSIVE RenderTurns(_, _)
RenderTurns(tmpl, msgs) ==
    IF msgs = <<>> THEN <<>>
    ELSE Turn(tmpl, Head(msgs)) \o RenderTurns(tmpl, Tail(msgs))

\* tokenizer.apply_chat_template(messages, tokenize=False, add_generation_prompt)
apply_chat_template(tmpl, msgs, gen) ==
    RenderTurns(tmpl, msgs) \o
    (IF gen THEN (IF tmpl = "special" THEN <<"<|assistant|>">>
                  ELSE <<"assistant:">>)
     ELSE <<>>)

\* tokenizer(prompt): the ids of the pieces, after the BOS token when the
\* tokenizer adds one
Encode(tok, p) ==
    (IF tok.addBos THEN <<IdOf("<s>")>> ELSE <<>>) \o
    [i \in 1..Len(p) |-> IdOf(p[i])]

\* tokenizer.decode(ids, skip_special_tokens)
Decode(ids, skip) ==
    LET Keep(i) == ~skip \/ i \notin SpecialIds
        kept == SelectSeq(ids, Keep)
    IN  [j \in 1..Len(kept) |-> Vocab[kept[j]]]

\* the token the sampling draws at step i under a seed of the generator
Sample(sd, i) ==
    IF i = sd.eosAt THEN eos_token_id
    ELSE IF sd.pat > 0 /\ i % (sd.pat + 1) = 0 THEN IdOf("<|user|>")
    ELSE IdOf("Sure")

Seeds == [eosAt : 1..(max_new_tokens + 1), pat : 0..MaxPat]

\* generation stops at the end-of-sequence token or at the cap
StopNow_late(tok, n) == tok = eos_token_id \/ n > max_new_tokens
StopNow(tok, n) == tok = eos_token_id \/ n >= max_new_tokens

\* the count the last line prints
GeneratedCount_total(out, inp) == Len(out)
GeneratedCount(out, inp) == Len(out) - Len(inp)

TokenizerFilesPresent_any(d) == TRUE
TokenizerFilesPresent(d) == d["tokenizer.json"].data = Remote["tokenizer.json"]

ModelFilesPresent(d) ==
    /\ d["config.json"].data = Remote["config.json"]
    /\ d["model.safetensors"].data = Remote["model.safetensors"]

\* an unhandled exception at step k ends the process with exit status 1
Abort(k) ==
    /\ tpc' = "aborted"
    /\ texit' = 1
    /\ failedStep' = k

Ran(k) == stepCount' = [stepCount EXCEPT ![k] = @ + 1]

\* lines 10-11
LoadTokenizer ==
    /\ tpc = "start"
    /\ Ran(1)
    /\ tout' = Append(tout, "Loading tokenizer...")
    /\ IF TokenizerFilesPresent(dir)
       THEN /\ \E tmpl \in Templates, bos \in BOOLEAN :
                 tokenizer' = [loaded |-> TRUE, template |-> tmpl,
                               addBos |-> bos]
            /\ tpc' = "tokenizer_loaded"
            /\ UNCHANGED <<texit, failedStep>>
       ELSE /\ Abort(1)
            /\ UNCHANGED tokenizer
    /\ UNCHANGED <<dir, fvars, model, prompt, input_ids, printedInputTokens,
                   seed, sampled, outputs, response, generatedCount>>

\* lines 13-18; ok: the hardware can hold the model
LoadModel_resave ==
    /\ tpc = "tokenizer_loaded"
    /\ Ran(2)
    /\ tout' = Append(tout, "Loading model (this may take a while)...")
    /\ \E ok \in BOOLEAN :
        IF ModelFilesPresent(dir) /\ ok
        THEN /\ model' = [loaded |-> TRUE]
             /\ tpc' = "model_loaded"
             /\ dir' = [dir EXCEPT !["model.safetensors"].data =
                                       <<<<"model.safetensors", 0>>>>]
             /\ UNCHANGED <<texit, failedStep>>
        ELSE /\ Abort(2)
             /\ UNCHANGED <<model, dir>>
    /\ UNCHANGED <<fvars, tokenizer, prompt, input_ids, printedInputTokens,
                   seed, sampled, outputs, response, generatedCount>>
LoadModel ==
    /\ tpc = "tokenizer_loaded"
    /\ Ran(2)
    /\ tout' = Append(tout, "Loading model (this may take a while)...")
    /\ \E ok \in BOOLEAN :
        IF ModelFilesPresent(dir) /\ ok
        THEN /\ model' = [loaded |-> TRUE]
             /\ tpc' = "model_loaded"
             /\ UNCHANGED <<texit, failedStep>>
        ELSE /\ Abort(2)
             /\ UNCHANGED model
    /\ UNCHANGED <<dir, fvars, tokenizer, prompt, input_ids,
                   printedInputTokens, seed, sampled, outputs, response,
                   generatedCount>>

\* lines 20-26
RenderPrompt ==
    /\ tpc = "model_loaded"
    /\ Ran(3)
    /\ IF tokenizer.template # "none"
       THEN /\ prompt' = apply_chat_template(tokenizer.template, messages,
                                             add_generation_prompt)
            /\ tout' = tout \o <<"Generating test response...", "Prompt: ">>
            /\ tpc' = "rendered"
            /\ UNCHANGED <<texit, failedStep>>
       ELSE /\ tout' = Append(tout, "Generating test response...")
            /\ Abort(3)
            /\ UNCHANGED prompt
    /\ UNCHANGED <<dir, fvars, tokenizer, model, input_ids,
                   printedInputTokens, seed, sampled, outputs, response,
                   generatedCount>>

\* lines 28-29
Tokenize ==
    /\ tpc = "rendered"
    /\ Ran(4)
    /\ input_ids' = Encode(tokenizer, prompt)
    /\ printedInputTokens' = Len(input_ids')
    /\ tout' = Append(tout, "Input tokens: ")
    /\ tpc' = "tokenized"
    /\ UNCHANGED <<dir, fvars, texit, failedStep, tokenizer, model, prompt,
                   seed, sampled, outputs, response, generatedCount>>

\* line 31: model.generate is entered; ok: the hardware can run it
Generate_retry ==
    /\ tpc = "tokenized"
    /\ Ran(5)
    /\ \E ok \in BOOLEAN :
        IF ok
        THEN /\ \E sd \in Seeds : seed' = sd
             /\ outputs' = input_ids
             /\ sampled' = 0
             /\ tpc' = "generating"
             /\ UNCHANGED <<texit, failedStep>>
        ELSE /\ IF stepCount[5] < 1
                THEN UNCHANGED <<tpc, texit, failedStep>>
                ELSE Abort(5)
             /\ UNCHANGED <<seed, outputs, sampled>>
    /\ UNCHANGED <<dir, fvars, tout, tokenizer, model, prompt, input_ids,
                   printedInputTokens, response, generatedCount>>
Generate ==
    /\ tpc = "tokenized"
    /\ Ran(5)
    /\ \E ok \in BOOLEAN :
        IF ok
        THEN /\ \E sd \in Seeds : seed' = sd
             /\ outputs' = input_ids
             /\ sampled' = 0
             /\ tpc' = "generating"
             /\ UNCHANGED <<texit, failedStep>>
        ELSE /\ Abort(5)
             /\ UNCHANGED <<seed, outputs, sampled>>
    /\ UNCHANGED <<dir, fvars, tout, tokenizer, model, prompt, input_ids,
                   printedInputTokens, response, generatedCount>>

\* lines 31-37: one iteration of the sampling loop of model.generate
SampleStep ==
    /\ tpc = "generating"
    /\ LET n == sampled + 1
           tok == Sample(seed, n)
       IN  /\ outputs' = Append(outputs, tok)
           /\ sampled' = n
           /\ tpc' = IF StopNow(tok, n) THEN "generated" ELSE "generating"
    /\ UNCHANGED <<dir, fvars, texit, tout, stepCount, failedStep, tokenizer,
                   model, prompt, input_ids, printedInputTokens, seed,
                   response, generatedCount>>

\* lines 39-41
DecodeReport ==
    /\ tpc = "generated"
    /\ Ran(6)
    /\ response' = Decode(outputs, skip_special_tokens)
    /\ generatedCount' = GeneratedCount(outputs, input_ids)
    /\ tout' = tout \o <<"Full response:", "Generated tokens">>
    /\ tpc' = "done"
    /\ texit' = 0
    /\ UNCHANGED <<dir, fvars, failedStep, tokenizer, model, prompt,
                   input_ids, printedInputTokens, seed, sampled, outputs>>

InitTester ==
    /\ dir \in DirStates
    /\ InitFetcherIdle
    /\ InitTesterIdle

NextTester ==
    \/ LoadTokenizer
    \/ LoadModel
    \/ RenderPrompt
    \/ Tokenize
    \/ Generate
    \/ SampleStep
    \/ DecodeReport

SpecTester == InitTester /\ [][NextTester]_vars

\* the script is a sequential process: an enabled step is taken
FairSpecTester == SpecTester /\ WF_vars(NextTester)

----------------------------------------------------------------------------
(* Properties *)

Range(q) == {q[i] : i \in 1..Len(q)}

IsPrefix(a, b) == Len(a) <= Len(b) /\ SubSeq(b, 1, Len(a)) = a

\* C1: a Smoke Tester run that reaches its final report has generated more
\* than 0 and at most max_new_tokens (100) new tokens, wherever the
\* end-of-sequence token is sampled.
C1_GeneratedWithinCap ==
    tpc = "done" =>
        /\ Len(outputs) - Len(input_ids) > 0
        /\ Len(outputs) - Len(input_ids) <= max_new_tokens

C1_Witness ==
    /\ tpc = "done"
    /\ seed.eosAt > max_new_tokens
    /\ Len(outputs) - Len(input_ids) = max_new_tokens

\* C2: the printed "Generated" count is the length of the output sequence
\* minus the printed "Input tokens" count; the output sequence begins with the
\* input tokens, so the count is the number of tokens the sampling produced.
C2_GeneratedCountIsDifference ==
    tpc = "done" =>
        /\ generatedCount = Len(outputs) - printedInputTokens
        /\ IsPrefix(input_ids, outputs)
        /\ printedInputTokens = Len(input_ids)
        /\ generatedCount = sampled

C2_Witness ==
    /\ tpc = "done"
    /\ printedInputTokens > 0
    /\ generatedCount = 7
    /\ tokenizer.addBos

\* some file the loaders require is not complete in the model directory
MissingRequired == \E f \in Files : dir[f].data # Remote[f]

\* C3: against a directory missing required files the run ends with a
\* non-zero exit status, the generate step is never reached and neither the
\* "Full response" nor the "Generated" line is printed.
C3_MissingFilesAbort ==
    /\ [](MissingRequired =>
            /\ stepCount[5] = 0
            /\ tpc \notin {"generating", "generated", "done"}
            /\ "Full response:" \notin Range(tout)
            /\ "Generated tokens" \notin Range(tout)
            /\ texit # 0)
    /\ (MissingRequired ~> (tpc = "aborted" /\ texit = 1))

C3_Witness ==
    /\ tpc = "aborted"
    /\ texit = 1
    /\ failedStep = 2
    /\ TokenizerFilesPresent(dir)
    /\ dir["model.safetensors"].part # <<>>

DoneLine == "Done! Model downloaded to: " \o OUTPUT_DIR

\* C6: a failing download is neither caught nor retried: snapshot_download
\* is called once per run, a raised error ends the run with a non-zero exit
\* status, and the completion message is printed only after the call returned
\* successfully.
C6_FailFast ==
    /\ calls <= 1
    /\ fpc \in {"download", "returned", "done", "failed"} => calls = 1
    /\ ferror # "none" =>
            /\ fpc = "failed"
            /\ fexit = 1
            /\ DoneLine \notin Range(fout)
    /\ DoneLine \in Range(fout) =>
            /\ ferror = "none"
            /\ visited = Files
            /\ fexit = 0

C6_Witness ==
    /\ fpc = "failed"
    /\ ferror = "disk"
    /\ started # {}
    /\ fexit = 1

\* the lines the Smoke Tester prints, in the order of the script
TesterLines == <<"Loading tokenizer...",
                 "Loading model (this may take a while)...",
                 "Generating test response...", "Prompt: ", "Input tokens: ",
                 "Full response:", "Generated tokens">>

StepOrder ==
    /\ \A k \in 1..6 : stepCount[k] <= 1
    /\ \A k \in 2..6 : stepCount[k] = 1 =>
            /\ stepCount[k - 1] = 1
            /\ failedStep \notin 1..(k - 1)
    /\ IsPrefix(tout, TesterLines)
    /\ tpc = "aborted" =>
            /\ failedStep \in 1..6
            /\ stepCount[failedStep] = 1
            /\ \A j \in 1..6 : j > failedStep => stepCount[j] = 0
    /\ tpc = "done" =>
            /\ failedStep = 0
            /\ \A k \in 1..6 : stepCount[k] = 1

\* C7: the six steps run in one fixed order, each at most once and only
\* after the previous one succeeded; every run ends completed with all six
\* steps done or aborted at the first failing step with no later step run.
C7_LinearSteps ==
    /\ []StepOrder
    /\ <>(tpc \in {"done", "aborted"})

C7_Witness ==
    /\ tpc = "aborted"
    /\ failedStep = 5
    /\ stepCount[5] = 1
    /\ stepCount[6] = 0

NotSpecial(piece) == piece \notin SpecialPieces

HaveChunks(d) ==
    {<<f, i>> \in Files \X (1..(WeightsChunks + 1)) :
        i <= Len(d[f].data) \/ i <= Len(d[f].part)}

FullSnapshot ==
    [f \in Files |-> [data |-> Remote[f], part |-> <<>>, kind |-> "regular"]]

\* the previous run was interrupted with complete and partial files left
Interrupted ==
    /\ prev = "failed"
    /\ \E f \in Files : haveAtStart[f].data = Remote[f]
    /\ \E f \in Files : haveAtStart[f].part # <<>>

C10_TesterReadsOnly == [][dir' = dir]_vars

C10_Witness ==
    /\ tpc = "done"
    /\ texit = 0
    /\ model.loaded
    /\ dir = FullSnapshot

====
